---------------------------- MODULE Spec2Model ----------------------------
(***************************************************************************)
(* A model of the monitoring components of                                 *)
(* projects/project-04-monitoring-alerting/src/custom_metrics.py:          *)
(* ConfidenceAnalyzer, ModelPerformanceMonitor and DataQualityMonitor.     *)
(*                                                                         *)
(* The source gives each method's body as a reference implementation in    *)
(* the comment block under the method's TODO marker; the model follows     *)
(* that body statement by statement.  Where the source gives no body at    *)
(* all (ModelPerformanceMonitor.add_ground_truth) the model follows the    *)
(* executable statement, which is `pass`.                                  *)
(*                                                                         *)
(* The components own disjoint state, so each has a specification of its   *)
(* own (SpecCA, SpecPM, SpecDeg, SpecDQ); Spec is their union.             *)
(*                                                                         *)
(* Numbers: a confidence is an integer number of tenths (10 is 1.0); a     *)
(* baseline accuracy and a threshold are integer hundredths (90 is 0.90);  *)
(* an accuracy is the exact fraction correct / total.                      *)
(***************************************************************************)
EXTENDS Integers, Sequences, FiniteSets, TLC

VARIABLES
    \* ConfidenceAnalyzer
    window_size,            \* self.window_size
    confidences,            \* self.confidences
    correctness,            \* self.correctness
    ca_log,                 \* history: every log_confidence call, in order
    ca_ret,                 \* outcome of the last ConfidenceAnalyzer call
    ca_stats,               \* what the last get_statistics call returned
    ca_threads,             \* where each thread stands inside log_confidence
    \* ModelPerformanceMonitor
    min_samples,            \* self.min_samples
    predictions,            \* self.predictions
    ground_truth,           \* self.ground_truth
    prediction_timestamps,  \* self.prediction_timestamps
    pm_records,             \* history: every log_prediction call, in order
    pm_ret,                 \* outcome of the last ModelPerformanceMonitor call
    \* DataQualityMonitor
    expected_schema,        \* self.expected_schema
    issue_counts,           \* self.issue_counts
    missing_features_total, \* the metric counter, one series per feature_name
    dq_calls,               \* history: number of validate_request calls
    dq_ret,                 \* outcome of the last DataQualityMonitor call
    dq_threads,             \* where each thread stands inside validate_request
    \* DataDriftDetector
    detector,               \* the detector object, or the failed construction
    dd_ret,                 \* outcome of the last detect_drift call
    dd_log,                 \* features logger.warning named in that call
    test_ret,               \* the last direct call of a statistical test
    \* The metrics sink
    data_drift_score,       \* gauge, one series per feature_name
    model_accuracy,         \* gauge of calculate_metrics
    sink_ok,                \* whether a call on a metric object succeeds
    \* The serving application (project 02)
    app_state,              \* the ApplicationState object
    app_pc,                 \* where the main flow and the signal handler stand
    app_probe,              \* last answers of the readiness and liveness probes
    \* The ml_training_pipeline DAG (project 03)
    dag_tasks,              \* state and try number of each task instance
    dag_run                 \* number of the current DAG run

ca_vars == <<window_size, confidences, correctness, ca_log, ca_ret,
             ca_stats, ca_threads>>
pm_vars == <<min_samples, predictions, ground_truth, prediction_timestamps,
             pm_records, pm_ret>>
dq_vars == <<expected_schema, issue_counts, missing_features_total,
             dq_calls, dq_ret, dq_threads>>
dd_vars == <<detector, dd_ret, dd_log, test_ret>>
sink_vars == <<data_drift_score, model_accuracy, sink_ok>>
app_vars == <<app_state, app_pc, app_probe>>
dag_vars == <<dag_tasks, dag_run>>
vars == <<ca_vars, pm_vars, dq_vars, dd_vars, sink_vars, app_vars, dag_vars>>

None == "None"

Min(a, b) == IF a < b THEN a ELSE b
Max(a, b) == IF a > b THEN a ELSE b

(***************************************************************************)
(* Bounds of the exploration.                                              *)
(***************************************************************************)
MaxWindow == 2
MaxCalls == 3
MaxThreads == 2

\* The threads that call into one shared object.
Threads == 1..MaxThreads

(***************************************************************************)
(* Python list slicing s[i:], for any integer i: a negative i counts from  *)
(* the end and is clamped at the start of the list; -0 is 0, so s[-0:] is  *)
(* the whole list.                                                         *)
(***************************************************************************)
PySliceFrom(s, i) ==
    LET start == IF i < 0 THEN Max(Len(s) + i, 0) ELSE Min(i, Len(s))
    IN  SubSeq(s, start + 1, Len(s))

(***************************************************************************)
(*                          ConfidenceAnalyzer                             *)
(***************************************************************************)

\* Confidences offered to log_confidence, in tenths: -0.1, 0.0, 1.0, 1.1.
ConfidenceValues == {-1, 0, 10, 11}
IsCorrectValues == {None, "True", "False"}

\* The window sizes the constructor is given (it validates nothing).
WindowSizes == 0..MaxWindow

InRange(confidence) == 0 <= confidence /\ confidence <= 10

\* A thread outside log_confidence.
CAOutside == [pc |-> "idle", n |-> 0, is_correct |-> None, tmp |-> <<>>]

\* The key 'calibration_score' is not in the returned dict.
NoScore == -1

\* No get_statistics call has returned yet.
NoStats == [out |-> "init", count |-> 0, min |-> 0, max |-> 0,
            calibration_score |-> NoScore]

\* ConfidenceAnalyzer.__init__
CAInit ==
    /\ window_size \in WindowSizes
    /\ confidences = <<>>
    /\ correctness = <<>>
    /\ ca_log = <<>>
    /\ ca_ret = "init"
    /\ ca_stats = NoStats
    /\ ca_threads = [t \in Threads |-> CAOutside]

\* The test of line 589, mutated: the window is allowed one entry too many.
Overflows_OneLate(s) == Len(s) > window_size + 1

\* if len(self.confidences) > self.window_size
Overflows(s) == Len(s) > window_size

(***************************************************************************)
(* ConfidenceAnalyzer.log_confidence(confidence, is_correct).  The lists   *)
(* hold plain values in the source; the model tags each entry with the     *)
(* number of the call that appended it (field n), which no statement of    *)
(* the code reads, so that an entry can be traced to its call.             *)
(***************************************************************************)
LogConfidence(confidence, is_correct) ==
    LET n == Len(ca_log) + 1
        appended == Append(confidences, [n |-> n, v |-> confidence])
        flagged == IF is_correct # None
                   THEN Append(correctness, [n |-> n, v |-> is_correct])
                   ELSE correctness
    IN  /\ Len(ca_log) < MaxCalls
        /\ IF Overflows(appended)
           THEN /\ confidences' = PySliceFrom(appended, -window_size)
                /\ correctness' = PySliceFrom(flagged, -window_size)
           ELSE /\ confidences' = appended
                /\ correctness' = flagged
        /\ ca_log' = Append(ca_log, [n |-> n, confidence |-> confidence,
                                     is_correct |-> is_correct])
        /\ ca_ret' = "ok"
        /\ UNCHANGED <<window_size, ca_stats, ca_threads>>

CALogConfidence ==
    /\ \E confidence \in ConfidenceValues, is_correct \in IsCorrectValues :
          LogConfidence(confidence, is_correct)
    /\ UNCHANGED <<pm_vars, dq_vars, dd_vars, sink_vars,
                 app_vars, dag_vars>>

\* np.min / np.max of the window
MinOf(s) == CHOOSE x \in {s[i].v : i \in 1..Len(s)} :
               \A i \in 1..Len(s) : x <= s[i].v
MaxOf(s) == CHOOSE x \in {s[i].v : i \in 1..Len(s)} :
               \A i \in 1..Len(s) : x >= s[i].v

CountOf_Logged(s) == Len(ca_log)

\* 'count': len(self.confidences)
CountOf(s) == Len(s)

\* _calculate_calibration: its body is `return 0.0`, whatever the window
\* holds.
CalculateCalibration == 0

(***************************************************************************)
(* ConfidenceAnalyzer.get_statistics(): {} for an empty window; otherwise  *)
(* the dict of statistics, of which the model keeps 'count', 'min' and     *)
(* 'max' (the mean, median, std and percentiles are numpy aggregates of    *)
(* the same array and decide nothing), plus 'calibration_score' when       *)
(* self.correctness is not empty.  The method writes no attribute.         *)
(***************************************************************************)
GetStatistics ==
    /\ ca_ret' = "stats"
    /\ ca_stats' =
          IF Len(confidences) = 0
          THEN [out |-> "empty", count |-> 0, min |-> 0, max |-> 0,
                calibration_score |-> NoScore]
          ELSE [out |-> "stats", count |-> CountOf(confidences),
                min |-> MinOf(confidences), max |-> MaxOf(confidences),
                calibration_score |->
                    IF Len(correctness) > 0 THEN CalculateCalibration
                    ELSE NoScore]
    /\ UNCHANGED <<window_size, confidences, correctness, ca_log,
                   ca_threads>>

CAGetStatistics ==
    /\ GetStatistics
    /\ UNCHANGED <<pm_vars, dq_vars, dd_vars, sink_vars,
                 app_vars, dag_vars>>

NextCA == CALogConfidence \/ CAGetStatistics

(***************************************************************************)
(* log_confidence called from several threads on one analyzer.  The method *)
(* takes no lock, so the interpreter may switch threads between any two    *)
(* of its statements, and between the evaluation of a slice (which builds  *)
(* a new list) and the assignment that binds it to the attribute.  Each    *)
(* step below is one such indivisible piece; list.append is one piece.     *)
(* ca_log records the calls in the order of their appends.                 *)
(***************************************************************************)
ConcurrentConfidences == {10}
ConcurrentFlags == {None, "True"}

\* self.confidences.append(confidence)
AppendConfidence(t, confidence, is_correct) ==
    LET n == Len(ca_log) + 1
    IN  /\ ca_threads[t].pc = "idle"
        /\ Len(ca_log) < MaxCalls
        /\ confidences' = Append(confidences, [n |-> n, v |-> confidence])
        /\ ca_log' = Append(ca_log, [n |-> n, confidence |-> confidence,
                                     is_correct |-> is_correct])
        /\ ca_threads' =
              [ca_threads EXCEPT ![t] =
                  [pc |-> IF is_correct # None THEN "flag" ELSE "check",
                   n |-> n, is_correct |-> is_correct, tmp |-> <<>>]]
        /\ UNCHANGED <<window_size, correctness, ca_ret,
                   ca_stats>>

\* if is_correct is not None: self.correctness.append(is_correct)
AppendCorrectness(t) ==
    /\ ca_threads[t].pc = "flag"
    /\ correctness' = Append(correctness, [n |-> ca_threads[t].n,
                                           v |-> ca_threads[t].is_correct])
    /\ ca_threads' = [ca_threads EXCEPT ![t].pc = "check",
                                        ![t].is_correct = None]
    /\ UNCHANGED <<window_size, confidences, ca_log, ca_ret,
                   ca_stats>>

\* if len(self.confidences) > self.window_size; the call returns otherwise
CheckOverflow(t) ==
    /\ ca_threads[t].pc = "check"
    /\ ca_threads' = [ca_threads EXCEPT ![t] =
                         IF Overflows(confidences)
                         THEN [@ EXCEPT !.pc = "slice_confidences"]
                         ELSE CAOutside]
    /\ UNCHANGED <<window_size, confidences, correctness, ca_log, ca_ret,
                   ca_stats>>

\* evaluation of self.confidences[-self.window_size:]
SliceConfidences(t) ==
    /\ ca_threads[t].pc = "slice_confidences"
    /\ ca_threads' =
          [ca_threads EXCEPT ![t].pc = "store_confidences",
                             ![t].tmp = PySliceFrom(confidences, -window_size)]
    /\ UNCHANGED <<window_size, confidences, correctness, ca_log, ca_ret,
                   ca_stats>>

\* self.confidences = <the slice>
StoreConfidences(t) ==
    /\ ca_threads[t].pc = "store_confidences"
    /\ confidences' = ca_threads[t].tmp
    /\ ca_threads' = [ca_threads EXCEPT ![t].pc = "slice_correctness",
                                        ![t].tmp = <<>>]
    /\ UNCHANGED <<window_size, correctness, ca_log, ca_ret,
                   ca_stats>>

\* evaluation of self.correctness[-self.window_size:]
SliceCorrectness(t) ==
    /\ ca_threads[t].pc = "slice_correctness"
    /\ ca_threads' =
          [ca_threads EXCEPT ![t].pc = "store_correctness",
                             ![t].tmp = PySliceFrom(correctness, -window_size)]
    /\ UNCHANGED <<window_size, confidences, correctness, ca_log, ca_ret,
                   ca_stats>>

\* self.correctness = <the slice>; the call returns
StoreCorrectness(t) ==
    /\ ca_threads[t].pc = "store_correctness"
    /\ correctness' = ca_threads[t].tmp
    /\ ca_threads' = [ca_threads EXCEPT ![t] = CAOutside]
    /\ UNCHANGED <<window_size, confidences, ca_log, ca_ret,
                   ca_stats>>

CAOthers == <<pm_vars, dq_vars, dd_vars, sink_vars,
                 app_vars, dag_vars>>

CAAppendConfidence ==
    /\ \E t \in Threads, confidence \in ConcurrentConfidences,
          is_correct \in ConcurrentFlags :
          AppendConfidence(t, confidence, is_correct)
    /\ UNCHANGED CAOthers
CAAppendCorrectness ==
    (\E t \in Threads : AppendCorrectness(t)) /\ UNCHANGED CAOthers
CACheckOverflow ==
    (\E t \in Threads : CheckOverflow(t)) /\ UNCHANGED CAOthers
CASliceConfidences ==
    (\E t \in Threads : SliceConfidences(t)) /\ UNCHANGED CAOthers
CAStoreConfidences ==
    (\E t \in Threads : StoreConfidences(t)) /\ UNCHANGED CAOthers
CASliceCorrectness ==
    (\E t \in Threads : SliceCorrectness(t)) /\ UNCHANGED CAOthers
CAStoreCorrectness ==
    (\E t \in Threads : StoreCorrectness(t)) /\ UNCHANGED CAOthers

NextCAThreads ==
    \/ CAAppendConfidence \/ CAAppendCorrectness \/ CACheckOverflow
    \/ CASliceConfidences \/ CAStoreConfidences
    \/ CASliceCorrectness \/ CAStoreCorrectness


(***************************************************************************)
(*                       ModelPerformanceMonitor                           *)
(***************************************************************************)
MaxPredictions == 3
MaxMinSamples == 2

Classes == {0, 1}
\* ground_truth=None, as a class index no class has
NoLabel == -1
GroundTruthValues == Classes \cup {NoLabel}
\* prediction_id as log_prediction is given it, and as add_ground_truth is:
\* "b" is an id no prediction was logged with.
PredictionIds == {None, "a"}
FeedbackIds == {"a", "b"}
\* baseline_accuracy and threshold, in hundredths
Baselines == {50, 90}
Thresholds == {10}

PMRet(op, out, sample_count, correct, baseline, threshold, prediction_id) ==
    [op |-> op, out |-> out, sample_count |-> sample_count,
     correct |-> correct, baseline |-> baseline, threshold |-> threshold,
     prediction_id |-> prediction_id]

\* ModelPerformanceMonitor.__init__
PMInit ==
    /\ min_samples \in 1..MaxMinSamples
    /\ predictions = <<>>
    /\ ground_truth = <<>>
    /\ prediction_timestamps = <<>>
    /\ pm_records = <<>>
    /\ pm_ret = PMRet("init", "ok", 0, 0, 0, 0, None)

\* ModelPerformanceMonitor.log_prediction; prediction_id is not stored.
\* A body that keeps only the newest prediction.
LogPrediction_KeepsNewest(prediction, truth, prediction_id) ==
    /\ Len(pm_records) < MaxPredictions
    /\ predictions' = <<prediction>>
    /\ ground_truth' = IF truth # NoLabel THEN <<truth>> ELSE <<>>
    /\ prediction_timestamps' = <<Len(pm_records) + 1>>
    /\ pm_records' = Append(pm_records, [prediction |-> prediction,
                                         ground_truth |-> truth,
                                         prediction_id |-> prediction_id])
    /\ pm_ret' = PMRet("log_prediction", "ok", 0, 0, 0, 0, prediction_id)
    /\ UNCHANGED min_samples

LogPrediction(prediction, truth, prediction_id) ==
    /\ Len(pm_records) < MaxPredictions
    /\ predictions' = Append(predictions, prediction)
    /\ ground_truth' = IF truth # NoLabel THEN Append(ground_truth, truth)
                       ELSE ground_truth
    /\ prediction_timestamps' =
          Append(prediction_timestamps, Len(prediction_timestamps) + 1)
    /\ pm_records' = Append(pm_records, [prediction |-> prediction,
                                         ground_truth |-> truth,
                                         prediction_id |-> prediction_id])
    /\ pm_ret' = PMRet("log_prediction", "ok", 0, 0, 0, 0, prediction_id)
    /\ UNCHANGED min_samples

\* A body that appends the label whether or not the id is known.
AddGroundTruth_Appends(prediction_id, truth) ==
    /\ Len(ground_truth) < MaxPredictions
    /\ ground_truth' = Append(ground_truth, truth)
    /\ pm_ret' = PMRet("add_ground_truth", "ok", 0, 0, 0, 0, prediction_id)
    /\ UNCHANGED <<min_samples, predictions, prediction_timestamps,
                   pm_records>>

\* ModelPerformanceMonitor.add_ground_truth: the body is `pass`.
AddGroundTruth(prediction_id, truth) ==
    /\ pm_ret' = PMRet("add_ground_truth", "ok", 0, 0, 0, 0, prediction_id)
    /\ UNCHANGED <<min_samples, predictions, ground_truth,
                   prediction_timestamps, pm_records>>

(***************************************************************************)
(* sklearn.metrics.accuracy_score(y_true, y_pred): the two lists are       *)
(* compared position by position; lists of different lengths are refused   *)
(* with ValueError (inconsistent numbers of samples).                      *)
(***************************************************************************)
ConsistentLength(y_true, y_pred) == Len(y_true) = Len(y_pred)
NumCorrect(y_true, y_pred) ==
    Cardinality({i \in 1..Len(y_true) : y_true[i] = y_pred[i]})

\* degradation > threshold, with the threshold included
Degraded_Inclusive(correct, total, baseline, threshold) ==
    baseline * total - 100 * correct >= threshold * total

(***************************************************************************)
(* degradation = baseline_accuracy - current_accuracy; degradation >       *)
(* threshold.  With current_accuracy = correct / total and the other two   *)
(* in hundredths, both sides are multiplied by 100 * total.  The source    *)
(* computes in doubles; for the baselines and thresholds used here and     *)
(* every total up to 10 and 100 the double comparison gives the same       *)
(* answer as this exact one (at 0.90 - 0.80 the double difference is       *)
(* 0.09999999999999998, not above 0.1).                                    *)
(***************************************************************************)
Degraded(correct, total, baseline, threshold) ==
    baseline * total - 100 * correct > threshold * total

(***************************************************************************)
(* ModelPerformanceMonitor.calculate_metrics.  precision_score,            *)
(* recall_score and f1_score read the same two lists as accuracy_score     *)
(* and refuse them on the same condition; their values and the log line   *)
(* are not part of the state.  The gauge update                            *)
(* model_accuracy.labels(...).set(accuracy) stands between the computation *)
(* and the return with no exception handler around it: an exception of the *)
(* sink leaves the call as SinkError.                                      *)
(***************************************************************************)
CalculateMetrics ==
    LET computes == /\ Len(ground_truth) >= min_samples
                    /\ ConsistentLength(ground_truth, predictions)
        correct == NumCorrect(ground_truth, predictions)
    IN  /\ pm_ret' =
              IF Len(ground_truth) < min_samples
              THEN PMRet("calculate_metrics", "None", 0, 0, 0, 0, None)
              ELSE IF ~ConsistentLength(ground_truth, predictions)
              THEN PMRet("calculate_metrics", "ValueError", 0, 0, 0, 0, None)
              ELSE IF ~sink_ok
              THEN PMRet("calculate_metrics", "SinkError", 0, 0, 0, 0, None)
              ELSE PMRet("calculate_metrics", "snapshot", Len(ground_truth),
                         correct, 0, 0, None)
        /\ model_accuracy' =
              IF computes /\ sink_ok
              THEN <<[correct |-> correct, total |-> Len(ground_truth)]>>
              ELSE model_accuracy
        /\ UNCHANGED <<min_samples, predictions, ground_truth,
                       prediction_timestamps, pm_records>>

\* ModelPerformanceMonitor.check_degradation
CheckDegradation(baseline_accuracy, threshold) ==
    /\ pm_ret' =
          IF Len(ground_truth) < min_samples
          THEN PMRet("check_degradation", "False", 0, 0,
                     baseline_accuracy, threshold, None)
          ELSE IF ~ConsistentLength(ground_truth, predictions)
          THEN PMRet("check_degradation", "ValueError", 0, 0,
                     baseline_accuracy, threshold, None)
          ELSE IF Degraded(NumCorrect(ground_truth, predictions),
                           Len(ground_truth), baseline_accuracy, threshold)
          THEN PMRet("check_degradation", "True", 0, 0,
                     baseline_accuracy, threshold, None)
          ELSE PMRet("check_degradation", "False", 0, 0,
                     baseline_accuracy, threshold, None)
    /\ UNCHANGED <<min_samples, predictions, ground_truth,
                   prediction_timestamps, pm_records>>

PMLogPrediction ==
    /\ \E prediction \in Classes, truth \in GroundTruthValues,
          prediction_id \in PredictionIds :
          LogPrediction(prediction, truth, prediction_id)
    /\ UNCHANGED <<ca_vars, dq_vars, dd_vars, sink_vars,
                 app_vars, dag_vars>>

PMAddGroundTruth ==
    /\ \E prediction_id \in FeedbackIds, truth \in Classes :
          AddGroundTruth(prediction_id, truth)
    /\ UNCHANGED <<ca_vars, dq_vars, dd_vars, sink_vars,
                 app_vars, dag_vars>>

PMCalculateMetrics ==
    /\ CalculateMetrics
    /\ UNCHANGED <<ca_vars, dq_vars, dd_vars, data_drift_score, sink_ok,
                 app_vars, dag_vars>>

PMCheckDegradation ==
    /\ \E baseline_accuracy \in Baselines, threshold \in Thresholds :
          CheckDegradation(baseline_accuracy, threshold)
    /\ UNCHANGED <<ca_vars, dq_vars, dd_vars, sink_vars,
                 app_vars, dag_vars>>

NextPM ==
    \/ PMLogPrediction
    \/ PMAddGroundTruth
    \/ PMCalculateMetrics
    \/ PMCheckDegradation


(***************************************************************************)
(*                         DataQualityMonitor                              *)
(***************************************************************************)
MaxValidations == 2

\* The features a schema declares, and the keys a request may carry.
Features == {"age", "name"}
Fields == Features \cup {"extra"}
\* Python iterates a dict in insertion order; schemas and requests are
\* taken to be built in this order.
FieldOrder == <<"age", "name", "extra">>

\* The names eval() resolves to a type, and the tags offered to a schema:
\* "integer" is a name Python does not define; "" is an empty tag.
TypeNames == {"int", "float", "str", "bool"}
TypeTags == TypeNames \cup {"integer", ""}
\* type(value).__name__ of the values a request carries
ValueTypes == {"int", "bool", "str"}

Schemas == [Features -> TypeTags]
\* A request: the keys present, each with the type of its value.
Requests == UNION {[present -> ValueTypes] : present \in SUBSET Fields}

\* isinstance(value, t) for a value of runtime type vt: bool subclasses int.
PyIsInstance(vt, t) == vt = t \/ (vt = "bool" /\ t = "int")

\* dict.get(key, 0) on a tally
Count(tally, key) == IF key \in DOMAIN tally THEN tally[key] ELSE 0

DQRet(out, data, issues) == [out |-> out, data |-> data, issues |-> issues]
NoIssues == [missing |-> <<>>, type_error |-> <<>>, out_of_range |-> <<>>]

\* A thread outside validate_request.
DQOutside == [pc |-> "idle", data |-> <<>>, todo |-> <<>>]

\* DataQualityMonitor.__init__
DQInit ==
    /\ expected_schema \in Schemas
    /\ issue_counts = [missing |-> <<>>, out_of_range |-> <<>>,
                       type_error |-> <<>>, schema_mismatch |-> 0]
    /\ missing_features_total = [f \in Features |-> 0]
    /\ dq_calls = 0
    /\ dq_ret = DQRet("init", <<>>, NoIssues)
    /\ dq_threads = [t \in Threads |-> DQOutside]

\* expected_type = self.expected_schema.get(feature_name); None when absent
SchemaGet(feature_name) ==
    IF feature_name \in DOMAIN expected_schema
    THEN expected_schema[feature_name] ELSE None

\* `if expected_type and ...`: None and "" are falsy, the check is skipped
Checked(feature_name, data) ==
    /\ feature_name \in DOMAIN data
    /\ SchemaGet(feature_name) \notin {None, ""}

\* eval(expected_type) raises NameError for a name Python does not define
EvalRaises(feature_name, data) ==
    Checked(feature_name, data) /\ SchemaGet(feature_name) \notin TypeNames

\* The counter rebuilt from the current request alone.
CountMissing_PerCall(counter, missing) ==
    [f \in DOMAIN counter |-> IF f \in missing THEN 1 ELSE 0]

\* missing_features_total.labels(feature_name=...).inc(), once for every
\* feature the first loop finds missing
CountMissing(counter, missing) ==
    [f \in DOMAIN counter |->
        IF f \in missing THEN counter[f] + 1 ELSE counter[f]]

(***************************************************************************)
(* DataQualityMonitor.validate_request(data).  The first loop counts every *)
(* declared feature the request lacks on the metric counter; the second    *)
(* evaluates each present field's tag and raises out of the call on a tag  *)
(* eval() cannot resolve, after the first loop has already counted.        *)
(* self.issue_counts is written by no statement.  No exception handler     *)
(* stands around .inc(): an exception of the sink leaves the call at the   *)
(* first missing feature, as SinkError.                                    *)
(***************************************************************************)
ValidateRequest(data) ==
    LET IsMissing(f) == f \in DOMAIN expected_schema /\ f \notin DOMAIN data
        IsTypeError(f) == /\ Checked(f, data)
                          /\ ~PyIsInstance(data[f], SchemaGet(f))
        issues == [missing |-> SelectSeq(FieldOrder, IsMissing),
                   type_error |-> SelectSeq(FieldOrder, IsTypeError),
                   out_of_range |-> <<>>]
        sinkRaises == ~sink_ok /\ \E f \in Features : IsMissing(f)
    IN  /\ dq_calls < MaxValidations
        /\ dq_calls' = dq_calls + 1
        /\ missing_features_total' =
              IF sinkRaises THEN missing_features_total
              ELSE CountMissing(missing_features_total,
                                {f \in Features : IsMissing(f)})
        /\ dq_ret' = IF sinkRaises
                     THEN DQRet("SinkError", data, NoIssues)
                     ELSE IF \E f \in Fields : EvalRaises(f, data)
                     THEN DQRet("NameError", data, NoIssues)
                     ELSE DQRet("issues", data, issues)
        /\ UNCHANGED <<expected_schema, issue_counts, dq_threads>>

DQValidateRequest ==
    /\ \E data \in Requests : ValidateRequest(data)
    /\ UNCHANGED <<ca_vars, pm_vars, dd_vars, sink_vars,
                 app_vars, dag_vars>>

NextDQ == DQValidateRequest

(***************************************************************************)
(* validate_request called from several threads on one monitor.  The       *)
(* method takes no lock; what it shares with other calls is the metric     *)
(* counter, whose inc() is indivisible (the metrics client guards each     *)
(* value with its own lock), and self.issue_counts, which it never         *)
(* touches.  The issues dict and the loop variables are the call's own.    *)
(* A thread's steps: enter and look up the missing features, one inc() per *)
(* missing feature, then the type loop and the return.                     *)
(***************************************************************************)
MissingIn(data) ==
    LET IsMissing(f) == f \in DOMAIN expected_schema /\ f \notin DOMAIN data
    IN  SelectSeq(FieldOrder, IsMissing)

TypeErrorsIn(data) ==
    LET IsTypeError(f) == /\ Checked(f, data)
                          /\ ~PyIsInstance(data[f], SchemaGet(f))
    IN  SelectSeq(FieldOrder, IsTypeError)

\* Requests that lack the feature "age".
RequestsWithoutAge == {data \in Requests : "age" \notin DOMAIN data}

Busy == Cardinality({t \in Threads : dq_threads[t].pc # "idle"})

EnterValidate(t, data) ==
    /\ dq_threads[t].pc = "idle"
    /\ dq_calls + Busy < MaxValidations
    /\ dq_threads' = [dq_threads EXCEPT ![t] =
                         [pc |-> "count", data |-> data,
                          todo |-> MissingIn(data)]]
    /\ UNCHANGED <<expected_schema, issue_counts, missing_features_total,
                   dq_calls, dq_ret>>

\* missing_features_total.labels(feature_name=feature_name).inc()
IncMissing(t) ==
    LET f == Head(dq_threads[t].todo)
    IN  /\ dq_threads[t].pc = "count"
        /\ dq_threads[t].todo # <<>>
        /\ sink_ok
        /\ missing_features_total' =
              [missing_features_total EXCEPT ![f] = @ + 1]
        /\ dq_threads' = [dq_threads EXCEPT ![t].todo = Tail(@)]
        /\ UNCHANGED <<expected_schema, issue_counts, dq_calls, dq_ret>>

\* the second loop and the return (or the NameError that eval raises)
LeaveValidate(t) ==
    LET data == dq_threads[t].data
    IN  /\ dq_threads[t].pc = "count"
        /\ dq_threads[t].todo = <<>>
        /\ dq_calls' = dq_calls + 1
        /\ dq_ret' = IF \E f \in Fields : EvalRaises(f, data)
                     THEN DQRet("NameError", data, NoIssues)
                     ELSE DQRet("issues", data,
                                [missing |-> MissingIn(data),
                                 type_error |-> TypeErrorsIn(data),
                                 out_of_range |-> <<>>])
        /\ dq_threads' = [dq_threads EXCEPT ![t] = DQOutside]
        /\ UNCHANGED <<expected_schema, issue_counts,
                       missing_features_total>>

DQOthers == <<ca_vars, pm_vars, dd_vars, sink_vars,
                 app_vars, dag_vars>>

DQEnterValidate ==
    /\ \E t \in Threads, data \in RequestsWithoutAge : EnterValidate(t, data)
    /\ UNCHANGED DQOthers
DQIncMissing ==
    (\E t \in Threads : IncMissing(t)) /\ UNCHANGED DQOthers
DQLeaveValidate ==
    (\E t \in Threads : LeaveValidate(t)) /\ UNCHANGED DQOthers

NextDQThreads == DQEnterValidate \/ DQIncMissing \/ DQLeaveValidate

(***************************************************************************)
(*                           DataDriftDetector                             *)
(***************************************************************************)

MaxFeatures == 2

\* Numbers are in thousandths: 50 is the default threshold 0.05.
DriftThresholds == {50}
Methods == {"ks", "psi", "js", "chi2"}
\* Rows of a sample (reference or current): empty, one point, two points.
RowCounts == 0..2

\* p_value = None of the 'psi' and 'js' branches
NoPValue == -1
\* The float nan: what the histogram percentages hist / len(sample) and
\* every number computed from them are when the sample is empty.
NaN == -2

FName(i) == <<"f1", "f2", "f3", "f4", "f5">>[i]
NameLists == {[i \in 1..k |-> FName(i)] : k \in 1..(MaxFeatures + 1)}

\* No detector object exists before construction.
NoDetector ==
    [state |-> "none", n_features |-> 0, feature_names |-> <<>>,
     method |-> "", threshold |-> 0, ref_rows |-> 0]

DDRet(op, out, results, rows, cols) ==
    [op |-> op, out |-> out, results |-> results, rows |-> rows,
     cols |-> cols]

\* No statistical test has been called directly.
NoTest == [op |-> "init", reference |-> <<>>, current |-> <<>>,
           ref_hist |-> <<>>, cur_hist |-> <<>>, kind |-> "none"]

DDIdle ==
    /\ detector = NoDetector
    /\ dd_ret = DDRet("init", "ok", <<>>, 0, 0)
    /\ dd_log = <<>>
    /\ test_ret = NoTest

\* A metrics sink that nothing has been exported to.
SinkIdle ==
    /\ data_drift_score = <<>>
    /\ model_accuracy = <<>>
    /\ sink_ok = TRUE

LengthMismatch_Longer(feature_names, n_features) ==
    Len(feature_names) > n_features

\* if len(feature_names) != self.n_features
LengthMismatch(feature_names, n_features) ==
    Len(feature_names) # n_features

(***************************************************************************)
(* DataDriftDetector.__init__: the attributes are stored, then the length  *)
(* of feature_names is compared with reference_data.shape[1] and a         *)
(* ValueError leaves the constructor, so the caller holds no object.       *)
(***************************************************************************)
Construct(ref_rows, n_features, feature_names, threshold, method) ==
    /\ detector.state = "none"
    /\ detector' =
          [state |-> IF LengthMismatch(feature_names, n_features)
                     THEN "ValueError" ELSE "ok",
           n_features |-> n_features, feature_names |-> feature_names,
           method |-> method, threshold |-> threshold,
           ref_rows |-> ref_rows]
    /\ UNCHANGED <<dd_ret, dd_log, test_ret>>

\* Float comparisons: every comparison with nan is False.
PyLess(a, b) == a # NaN /\ b # NaN /\ a < b
PyGreater(a, b) == a # NaN /\ b # NaN /\ a > b

\* is_drift = p_value < self.threshold
IsDriftKS(p_value, threshold) == PyLess(p_value, threshold)

IsDriftPSI_Inclusive(statistic) == statistic # NaN /\ statistic >= 250

\* is_drift = statistic > 0.25
IsDriftPSI(statistic) == PyGreater(statistic, 250)

\* is_drift = statistic > 0.5
IsDriftJS(statistic) == PyGreater(statistic, 500)

(***************************************************************************)
(* What a statistical test computes from two non-empty samples is decided  *)
(* by the data; the model lets it be any of a few values on both sides of  *)
(* and on the decision threshold.  A method no branch handles runs no      *)
(* test.                                                                   *)
(***************************************************************************)
Outcomes(method) ==
    CASE method = "ks" ->
           {[statistic |-> 100, p_value |-> p] : p \in {49, 50, 51}}
      [] method = "psi" ->
           {[statistic |-> x, p_value |-> NoPValue] : x \in {250, 251}}
      [] method = "js" ->
           {[statistic |-> x, p_value |-> NoPValue] : x \in {500, 501}}
      [] OTHER -> {[statistic |-> 0, p_value |-> NoPValue]}

\* With an empty sample the histogram percentages are 0/0; ks_2samp, where
\* it does not raise, answers nan for both numbers.
EmptyOutcome(method) ==
    [statistic |-> NaN, p_value |-> IF method = "ks" THEN NaN ELSE NoPValue]

IsDrift(method, threshold, outcome) ==
    CASE method = "ks" -> IsDriftKS(outcome.p_value, threshold)
      [] method = "psi" -> IsDriftPSI(outcome.statistic)
      [] method = "js" -> IsDriftJS(outcome.statistic)
      [] OTHER -> FALSE

\* DriftDetectionResult(...); the timestamp is not modelled.
Result(feature_name, method, threshold, outcome) ==
    [feature_name |-> feature_name, statistic |-> outcome.statistic,
     p_value |-> outcome.p_value,
     is_drift |-> IsDrift(method, threshold, outcome),
     test_method |-> method]

Logged_OnlyWithPValue(result) == result.is_drift /\ result.p_value # NoPValue

\* if is_drift: logger.warning(...)
Logged(result) == result.is_drift

(***************************************************************************)
(* detect_drift on a batch of `rows` rows and `cols` columns.  The loop    *)
(* runs over self.feature_names and never looks at the batch's shape:      *)
(*   - current_data[:, i] raises IndexError at the first feature the batch *)
(*     has no column for; columns beyond the declared features are never   *)
(*     read;                                                               *)
(*   - a method other than 'ks', 'psi', 'js' enters no branch, so building *)
(*     the first result reads the unbound name `statistic`;                *)
(*   - ks_2samp on an empty sample raises ValueError or answers nan,       *)
(*     depending on the scipy release (ks_raises).                         *)
(* Results and warnings of the features before the failing one have been   *)
(* produced when the exception leaves; the caller receives no list.        *)
(***************************************************************************)
DetectDrift(rows, cols, outcomes, ks_raises) ==
    LET d == detector
        n == Len(d.feature_names)
        empty == rows = 0 \/ d.ref_rows = 0
        result(i) == Result(d.feature_names[i], d.method, d.threshold,
                            IF empty THEN EmptyOutcome(d.method)
                            ELSE outcomes[i])
        out == IF d.method \notin {"ks", "psi", "js"}
               THEN "UnboundLocalError"
               ELSE IF d.method = "ks" /\ empty /\ ks_raises
               THEN "ValueError"
               ELSE IF cols < n THEN "IndexError"
               ELSE "results"
        done == CASE out = "results" -> n
                  [] out = "IndexError" -> cols
                  [] OTHER -> 0
        produced == [i \in 1..done |-> result(i)]
        warned == SelectSeq(produced, Logged)
    IN  /\ d.state = "ok"
        /\ dd_ret' = DDRet("detect_drift", out,
                           IF out = "results" THEN produced ELSE <<>>,
                           rows, cols)
        /\ dd_log' = [i \in 1..Len(warned) |-> warned[i].feature_name]
        /\ UNCHANGED <<detector, test_ret>>

(***************************************************************************)
(* export_drift_metrics(drift_results): one gauge update per result, with  *)
(* no exception handler around it.  An exception of the sink leaves the    *)
(* call at the first result.                                               *)
(***************************************************************************)
ExportDriftMetrics(drift_results) ==
    LET raises == ~sink_ok /\ drift_results # <<>>
        exported == {drift_results[i].feature_name :
                        i \in 1..Len(drift_results)}
        last(f) == CHOOSE i \in 1..Len(drift_results) :
                      /\ drift_results[i].feature_name = f
                      /\ \A j \in (i + 1)..Len(drift_results) :
                            drift_results[j].feature_name # f
    IN  /\ detector.state = "ok"
        /\ dd_ret' = DDRet("export_drift_metrics",
                           IF raises THEN "SinkError" ELSE "None",
                           drift_results, dd_ret.rows, dd_ret.cols)
        /\ data_drift_score' =
              IF raises THEN data_drift_score
              ELSE [f \in DOMAIN data_drift_score \cup exported |->
                       IF f \in exported
                       THEN drift_results[last(f)].statistic
                       ELSE data_drift_score[f]]
        /\ UNCHANGED <<detector, dd_log, test_ret>>

(***************************************************************************)
(* The two histogram tests, called directly on two samples.  A sample is   *)
(* the multiset of its values: how often each value of SampleValues        *)
(* occurs.                                                                 *)
(***************************************************************************)
MaxCount == 2
SampleValues == 0..2
Samples == {sample \in [SampleValues -> 0..MaxCount] :
               \E x \in SampleValues : sample[x] > 0}

\* bins: int = 10 of population_stability_index, 50 of
\* jensen_shannon_divergence
PSIBins == 10
JSBins == 50

\* len(sample)
Size(sample) == sample[0] + sample[1] + sample[2]

Lowest(sample) == CHOOSE x \in SampleValues :
    sample[x] > 0 /\ \A y \in SampleValues : sample[y] > 0 => x <= y
Highest(sample) == CHOOSE x \in SampleValues :
    sample[x] > 0 /\ \A y \in SampleValues : sample[y] > 0 => x >= y

(***************************************************************************)
(* The bin np.histogram puts x in, for nb equal-width bins over [lo, hi];  *)
(* 0 when it puts x in none.  The last bin is closed on the right; a value *)
(* below lo or above hi is in no bin.  When lo = hi the range is widened   *)
(* to [lo - 0.5, hi + 0.5].                                                *)
(***************************************************************************)
BinIndex(x, lo, hi, nb) ==
    IF lo = hi
    THEN IF x = lo THEN nb \div 2 + 1 ELSE 0
    ELSE IF x < lo \/ x > hi THEN 0
    ELSE IF x = hi THEN nb
    ELSE ((x - lo) * nb) \div (hi - lo) + 1

\* np.histogram(sample, bins) with the bin edges laid over [lo, hi]
Histogram(sample, lo, hi, nb) ==
    [i \in 1..nb |->
        (IF BinIndex(0, lo, hi, nb) = i THEN sample[0] ELSE 0)
      + (IF BinIndex(1, lo, hi, nb) = i THEN sample[1] ELSE 0)
      + (IF BinIndex(2, lo, hi, nb) = i THEN sample[2] ELSE 0)]

\* np.sum(hist)
Total(hist) == LET sum[i \in 0..Len(hist)] ==
                       IF i = 0 THEN 0 ELSE sum[i - 1] + hist[i]
               IN  sum[Len(hist)]

(***************************************************************************)
(* What the value of a test is, as far as integers can tell: "nan" when a  *)
(* share is 0/0, "zero" when the two vectors of shares are equal (both     *)
(* formulas are 0 exactly then), "positive" otherwise (both are sums of    *)
(* terms that are positive where the shares differ).  p[i] / np is         *)
(* compared with q[i] / nq by cross-multiplication.                        *)
(***************************************************************************)
Kind(p, np, q, nq) ==
    IF np = 0 \/ nq = 0 THEN "nan"
    ELSE IF \A i \in 1..Len(p) : p[i] * nq = q[i] * np THEN "zero"
    ELSE "positive"

\* jensen_shannon_divergence: both histograms on the bin edges of the
\* reference sample, each divided by its own sum.
JSKind(reference, current) ==
    LET lo == Lowest(reference)
        hi == Highest(reference)
        ref_hist == Histogram(reference, lo, hi, JSBins)
        cur_hist == Histogram(current, lo, hi, JSBins)
    IN  Kind(ref_hist, Total(ref_hist), cur_hist, Total(cur_hist))

JensenShannonDivergence(reference, current) ==
    LET lo == Lowest(reference)
        hi == Highest(reference)
    IN  /\ test_ret' =
              [op |-> "js", reference |-> reference, current |-> current,
               ref_hist |-> Histogram(reference, lo, hi, JSBins),
               cur_hist |-> Histogram(current, lo, hi, JSBins),
               kind |-> JSKind(reference, current)]
        /\ UNCHANGED <<detector, dd_ret, dd_log>>

\* population_stability_index: both histograms on the bin edges of the
\* reference sample, each divided by the length of its sample.
PopulationStabilityIndex(reference, current) ==
    LET lo == Lowest(reference)
        hi == Highest(reference)
        ref_hist == Histogram(reference, lo, hi, PSIBins)
        cur_hist == Histogram(current, lo, hi, PSIBins)
    IN  /\ test_ret' =
              [op |-> "psi", reference |-> reference, current |-> current,
               ref_hist |-> ref_hist, cur_hist |-> cur_hist,
               kind |-> Kind(ref_hist, Size(reference),
                             cur_hist, Size(current))]
        /\ UNCHANGED <<detector, dd_ret, dd_log>>

\* The tests are pure functions of their two arguments: a behaviour makes
\* one direct call, on any pair of samples.
DDJensenShannonDivergence ==
    /\ test_ret.op = "init"
    /\ \E reference \in Samples, current \in Samples :
          JensenShannonDivergence(reference, current)
    /\ UNCHANGED <<ca_vars, pm_vars, dq_vars, sink_vars,
                 app_vars, dag_vars>>

DDPopulationStabilityIndex ==
    /\ test_ret.op = "init"
    /\ \E reference \in Samples, current \in Samples :
          PopulationStabilityIndex(reference, current)
    /\ UNCHANGED <<ca_vars, pm_vars, dq_vars, sink_vars,
                 app_vars, dag_vars>>

NextTests == DDJensenShannonDivergence \/ DDPopulationStabilityIndex

DDConstruct ==
    /\ \E ref_rows \in RowCounts, n_features \in 1..MaxFeatures,
          feature_names \in NameLists, threshold \in DriftThresholds,
          method \in Methods :
          Construct(ref_rows, n_features, feature_names, threshold, method)
    /\ UNCHANGED <<ca_vars, pm_vars, dq_vars, sink_vars,
                 app_vars, dag_vars>>

DDDetectDrift ==
    /\ \E rows \in RowCounts, cols \in 1..(MaxFeatures + 1),
          outcomes \in [1..Len(detector.feature_names) ->
                           Outcomes(detector.method)],
          ks_raises \in BOOLEAN :
          DetectDrift(rows, cols, outcomes, ks_raises)
    /\ UNCHANGED <<ca_vars, pm_vars, dq_vars, sink_vars,
                 app_vars, dag_vars>>

\* The caller exports the list the last detect_drift call returned.
DDExportDriftMetrics ==
    /\ dd_ret.op \in {"detect_drift", "export_drift_metrics"}
    /\ dd_ret.out \in {"results", "None", "SinkError"}
    /\ ExportDriftMetrics(dd_ret.results)
    /\ UNCHANGED <<ca_vars, pm_vars, dq_vars, model_accuracy, sink_ok,
                 app_vars, dag_vars>>

NextDD == DDConstruct \/ DDDetectDrift \/ DDExportDriftMetrics


(***************************************************************************)
(*            The serving application (project 02, app.py)                 *)
(*                                                                         *)
(* The bodies of mark_ready, mark_not_ready, mark_shutdown, load_model and *)
(* handle_shutdown are given by their TODO lines and docstring examples;   *)
(* the model follows those.  handle_shutdown is a signal handler: the      *)
(* interpreter runs it on the main thread, between two steps of whatever   *)
(* the main thread was doing, and the SystemExit of its sys.exit(0) then   *)
(* unwinds the main thread.  The health endpoints are served by request    *)
(* threads once the server has started.                                    *)
(***************************************************************************)
MaxSignals == 2

\* ApplicationState.__init__
AppInit ==
    /\ app_state = [is_ready |-> FALSE, is_alive |-> TRUE,
                    model_loaded |-> FALSE, shutdown_event |-> FALSE,
                    model |-> None, gauge |-> 0]
    /\ app_pc = [main |-> "load", handler |-> "idle", signals |-> 0]
    /\ app_probe = [readiness |-> 0, liveness |-> 0]

MainMayRun_Always == app_pc.main # "exited"

\* The main flow advances only while no signal handler is running on its
\* thread and the process has not exited.
MainMayRun == app_pc.handler = "idle" /\ app_pc.main # "exited"

\* app_state.model = loader.load(); a failed load is logged and the process
\* exits
LoadModel ==
    /\ MainMayRun /\ app_pc.main = "load"
    /\ \/ /\ app_state' = [app_state EXCEPT !.model = "model"]
          /\ app_pc' = [app_pc EXCEPT !.main = "set_loaded"]
       \/ /\ app_pc' = [app_pc EXCEPT !.main = "exited"]
          /\ UNCHANGED app_state
    /\ UNCHANGED app_probe

\* app_state.model_loaded = True
SetModelLoaded ==
    /\ MainMayRun /\ app_pc.main = "set_loaded"
    /\ app_state' = [app_state EXCEPT !.model_loaded = TRUE]
    /\ app_pc' = [app_pc EXCEPT !.main = "set_gauge"]
    /\ UNCHANGED app_probe

\* model_loaded_gauge.labels(...).set(1)
SetLoadedGauge ==
    /\ MainMayRun /\ app_pc.main = "set_gauge"
    /\ app_state' = [app_state EXCEPT !.gauge = 1]
    /\ app_pc' = [app_pc EXCEPT !.main = "mark_ready"]
    /\ UNCHANGED app_probe

\* app_state.mark_ready(); then the server starts
MarkReady ==
    /\ MainMayRun /\ app_pc.main = "mark_ready"
    /\ app_state' = [app_state EXCEPT !.is_ready = TRUE]
    /\ app_pc' = [app_pc EXCEPT !.main = "serving"]
    /\ UNCHANGED app_probe

\* SIGTERM or SIGINT is delivered: handle_shutdown begins, also inside a
\* handle_shutdown that is already running.
ReceiveSignal ==
    /\ app_pc.main # "exited"
    /\ app_pc.signals < MaxSignals
    /\ app_pc' = [app_pc EXCEPT !.handler = "mark_not_ready",
                                !.signals = @ + 1]
    /\ UNCHANGED <<app_state, app_probe>>

\* app_state.mark_not_ready()
MarkNotReady ==
    /\ app_pc.handler = "mark_not_ready"
    /\ app_state' = [app_state EXCEPT !.is_ready = FALSE]
    /\ app_pc' = [app_pc EXCEPT !.handler = "sleep"]
    /\ UNCHANGED app_probe

\* time.sleep(2)
Sleep ==
    /\ app_pc.handler = "sleep"
    /\ app_pc' = [app_pc EXCEPT !.handler = "set_not_alive"]
    /\ UNCHANGED <<app_state, app_probe>>

\* app_state.mark_shutdown(): is_alive to False, ...
SetNotAlive ==
    /\ app_pc.handler = "set_not_alive"
    /\ app_state' = [app_state EXCEPT !.is_alive = FALSE]
    /\ app_pc' = [app_pc EXCEPT !.handler = "set_not_ready"]
    /\ UNCHANGED app_probe

\* ... is_ready to False, and the shutdown_event is triggered
SetNotReady ==
    /\ app_pc.handler = "set_not_ready"
    /\ app_state' = [app_state EXCEPT !.is_ready = FALSE,
                                      !.shutdown_event = TRUE]
    /\ app_pc' = [app_pc EXCEPT !.handler = "exit"]
    /\ UNCHANGED app_probe

\* sys.exit(0)
Exit ==
    /\ app_pc.handler = "exit"
    /\ app_pc' = [app_pc EXCEPT !.handler = "idle", !.main = "exited"]
    /\ UNCHANGED <<app_state, app_probe>>

\* GET /health/ready: 200 if is_ready and model_loaded, 503 otherwise
Readiness ==
    /\ app_pc.main = "serving"
    /\ app_probe' = [app_probe EXCEPT !.readiness =
                        IF app_state.is_ready /\ app_state.model_loaded
                        THEN 200 ELSE 503]
    /\ UNCHANGED <<app_state, app_pc>>

\* GET /health/live: 200 if is_alive, 503 otherwise
Liveness ==
    /\ app_pc.main = "serving"
    /\ app_probe' = [app_probe EXCEPT !.liveness =
                        IF app_state.is_alive THEN 200 ELSE 503]
    /\ UNCHANGED <<app_state, app_pc>>

AppOthers == <<ca_vars, pm_vars, dq_vars, dd_vars, sink_vars, dag_vars>>

AppLoadModel == LoadModel /\ UNCHANGED AppOthers
AppSetModelLoaded == SetModelLoaded /\ UNCHANGED AppOthers
AppSetLoadedGauge == SetLoadedGauge /\ UNCHANGED AppOthers
AppMarkReady == MarkReady /\ UNCHANGED AppOthers
AppReceiveSignal == ReceiveSignal /\ UNCHANGED AppOthers
AppMarkNotReady == MarkNotReady /\ UNCHANGED AppOthers
AppSleep == Sleep /\ UNCHANGED AppOthers
AppSetNotAlive == SetNotAlive /\ UNCHANGED AppOthers
AppSetNotReady == SetNotReady /\ UNCHANGED AppOthers
AppExit == Exit /\ UNCHANGED AppOthers
AppReadiness == Readiness /\ UNCHANGED AppOthers
AppLiveness == Liveness /\ UNCHANGED AppOthers

NextApp ==
    \/ AppLoadModel \/ AppSetModelLoaded \/ AppSetLoadedGauge
    \/ AppMarkReady \/ AppReceiveSignal \/ AppMarkNotReady \/ AppSleep
    \/ AppSetNotAlive \/ AppSetNotReady \/ AppExit
    \/ AppReadiness \/ AppLiveness

(***************************************************************************)
(*        The ml_training_pipeline DAG (project 03, ml_pipeline_dag.py)    *)
(*                                                                         *)
(* Eight operators with the default trigger rule (all upstream tasks       *)
(* succeeded) and the retries of default_args, chained by the two `>>`     *)
(* lines.  The scheduler starts a task instance whose upstream tasks have  *)
(* all succeeded; a task that raises is retried up to `retries` times and  *)
(* then failed; a task downstream of a failed one is marked                *)
(* upstream_failed and never runs.  max_active_runs = 1: the next run      *)
(* starts when the current one is over.                                    *)
(***************************************************************************)
MaxRuns == 2

\* 'retries': 3
Retries == 3

Tasks == {"ingest_data", "validate_data", "preprocess_data",
          "version_data_dvc", "train_model", "evaluate_model",
          "register_model", "send_success_email"}

\* a >> b >> c: each task is set upstream of the next one
ChainEdges(chain) == {<<chain[i], chain[i + 1]>> : i \in 1..(Len(chain) - 1)}

Edges ==
    ChainEdges(<<"ingest_data", "validate_data", "preprocess_data",
                 "version_data_dvc">>)
    \cup ChainEdges(<<"version_data_dvc", "train_model", "evaluate_model",
                      "register_model", "send_success_email">>)

Upstream_FirstLine(task) ==
    {u \in Tasks :
        <<u, task>> \in ChainEdges(<<"ingest_data", "validate_data",
                                     "preprocess_data", "version_data_dvc">>)}

\* task.upstream_task_ids
Upstream(task) == {u \in Tasks : <<u, task>> \in Edges}

\* A DAG run in which no task instance has been scheduled yet.
FreshRun == [t \in Tasks |-> [state |-> "none", try_number |-> 0]]

DagInit ==
    /\ dag_tasks = FreshRun
    /\ dag_run = 1

Finished == {"success", "failed", "upstream_failed"}

\* The scheduler starts a task instance: trigger rule all_success.
StartTask(t) ==
    /\ dag_tasks[t].state \in {"none", "up_for_retry"}
    /\ \A u \in Upstream(t) : dag_tasks[u].state = "success"
    /\ dag_tasks' = [dag_tasks EXCEPT ![t] =
                        [state |-> "running", try_number |-> @.try_number + 1]]
    /\ UNCHANGED dag_run

\* The callable returns (the e-mail is sent).
SucceedTask(t) ==
    /\ dag_tasks[t].state = "running"
    /\ dag_tasks' = [dag_tasks EXCEPT ![t].state = "success"]
    /\ UNCHANGED dag_run

\* The callable raises: retried while tries are left, failed otherwise.
FailTask(t) ==
    /\ dag_tasks[t].state = "running"
    /\ dag_tasks' = [dag_tasks EXCEPT ![t].state =
                        IF dag_tasks[t].try_number <= Retries
                        THEN "up_for_retry" ELSE "failed"]
    /\ UNCHANGED dag_run

\* A task with a failed or upstream_failed upstream task never runs.
MarkUpstreamFailed(t) ==
    /\ dag_tasks[t].state = "none"
    /\ \E u \in Upstream(t) :
          dag_tasks[u].state \in {"failed", "upstream_failed"}
    /\ dag_tasks' = [dag_tasks EXCEPT ![t].state = "upstream_failed"]
    /\ UNCHANGED dag_run

\* The run is over; the next scheduled run begins.
NextRun ==
    /\ \A t \in Tasks : dag_tasks[t].state \in Finished
    /\ dag_run < MaxRuns
    /\ dag_tasks' = FreshRun
    /\ dag_run' = dag_run + 1

DagOthers == <<ca_vars, pm_vars, dq_vars, dd_vars, sink_vars, app_vars>>

DagStartTask == (\E t \in Tasks : StartTask(t)) /\ UNCHANGED DagOthers
DagSucceedTask == (\E t \in Tasks : SucceedTask(t)) /\ UNCHANGED DagOthers
DagFailTask == (\E t \in Tasks : FailTask(t)) /\ UNCHANGED DagOthers
DagMarkUpstreamFailed ==
    (\E t \in Tasks : MarkUpstreamFailed(t)) /\ UNCHANGED DagOthers
DagNextRun == NextRun /\ UNCHANGED DagOthers

NextDag ==
    \/ DagStartTask \/ DagSucceedTask \/ DagFailTask
    \/ DagMarkUpstreamFailed \/ DagNextRun

(***************************************************************************)
(*                           Specifications                                *)
(***************************************************************************)
Init ==
    CAInit /\ PMInit /\ DQInit /\ DDIdle /\ SinkIdle /\ AppInit /\ DagInit

Next == NextCA \/ NextPM \/ NextDQ \/ NextDD \/ NextApp \/ NextDag

Spec == Init /\ [][Next]_vars

\* A component no call is made on, in one construction of it.
CAIdle == CAInit /\ window_size = 1
PMIdle == PMInit /\ min_samples = 1
DQIdle == DQInit /\ expected_schema = [f \in Features |-> "int"]

\* One component at a time, in every construction of it.
InitCA ==
    /\ window_size \in WindowSizes
    /\ confidences = <<>> /\ correctness = <<>>
    /\ ca_log = <<>> /\ ca_ret = "init" /\ ca_stats = NoStats
    /\ ca_threads = [t \in Threads |-> CAOutside]
    /\ PMIdle /\ DQIdle /\ DDIdle /\ SinkIdle /\ AppInit /\ DagInit
SpecCA == InitCA /\ [][NextCA]_vars

\* Threads sharing one analyzer of a positive window size.
InitCAThreads ==
    /\ window_size \in 1..MaxWindow
    /\ confidences = <<>> /\ correctness = <<>>
    /\ ca_log = <<>> /\ ca_ret = "init" /\ ca_stats = NoStats
    /\ ca_threads = [t \in Threads |-> CAOutside]
    /\ PMIdle /\ DQIdle /\ DDIdle /\ SinkIdle /\ AppInit /\ DagInit
SpecCAThreads == InitCAThreads /\ [][NextCAThreads]_vars

InitPM ==
    /\ min_samples \in 1..MaxMinSamples
    /\ predictions = <<>> /\ ground_truth = <<>>
    /\ prediction_timestamps = <<>> /\ pm_records = <<>>
    /\ pm_ret = PMRet("init", "ok", 0, 0, 0, 0, None)
    /\ CAIdle /\ DQIdle /\ DDIdle /\ SinkIdle /\ AppInit /\ DagInit
SpecPM == InitPM /\ [][NextPM]_vars

(***************************************************************************)
(* A monitor that has already logged predictions: n labelled ones, of      *)
(* which the first k were predicted correctly, followed by u unlabelled    *)
(* ones (the state n + u log_prediction calls leave), with sizes at which  *)
(* the accuracies 0.80 and 0.81 occur.  Only check_degradation is called.  *)
(***************************************************************************)
LoadedSizes == {5, 10, 100}
LoadedMinSamples == {10, 100}
Loaded(n, k, u) ==
    /\ predictions = [i \in 1..(n + u) |-> 1]
    /\ ground_truth = [i \in 1..n |-> IF i <= k THEN 1 ELSE 0]
    /\ prediction_timestamps = [i \in 1..(n + u) |-> i]
    /\ pm_records =
          [i \in 1..(n + u) |->
              [prediction |-> 1,
               ground_truth |-> IF i > n THEN NoLabel
                                ELSE IF i <= k THEN 1 ELSE 0,
               prediction_id |-> None]]
InitDeg ==
    /\ min_samples \in LoadedMinSamples
    /\ \E n \in LoadedSizes : \E k \in 0..n : \E u \in 0..1 : Loaded(n, k, u)
    /\ pm_ret = PMRet("init", "ok", 0, 0, 0, 0, None)
    /\ CAIdle /\ DQIdle /\ DDIdle /\ SinkIdle /\ AppInit /\ DagInit
NextDeg == PMCheckDegradation
SpecDeg == InitDeg /\ [][NextDeg]_vars

InitDQ ==
    /\ expected_schema \in Schemas
    /\ issue_counts = [missing |-> <<>>, out_of_range |-> <<>>,
                       type_error |-> <<>>, schema_mismatch |-> 0]
    /\ missing_features_total = [f \in Features |-> 0]
    /\ dq_calls = 0
    /\ dq_ret = DQRet("init", <<>>, NoIssues)
    /\ dq_threads = [t \in Threads |-> DQOutside]
    /\ CAIdle /\ PMIdle /\ DDIdle /\ SinkIdle /\ AppInit /\ DagInit
SpecDQ == InitDQ /\ [][NextDQ]_vars

\* Threads sharing one monitor whose schema declares "age".
InitDQThreads ==
    /\ expected_schema \in Schemas
    /\ issue_counts = [missing |-> <<>>, out_of_range |-> <<>>,
                       type_error |-> <<>>, schema_mismatch |-> 0]
    /\ missing_features_total = [f \in Features |-> 0]
    /\ dq_calls = 0
    /\ dq_ret = DQRet("init", <<>>, NoIssues)
    /\ dq_threads = [t \in Threads |-> DQOutside]
    /\ CAIdle /\ PMIdle /\ DDIdle /\ SinkIdle /\ AppInit /\ DagInit
SpecDQThreads == InitDQThreads /\ [][NextDQThreads]_vars

InitDD ==
    /\ detector = NoDetector
    /\ dd_ret = DDRet("init", "ok", <<>>, 0, 0)
    /\ dd_log = <<>>
    /\ test_ret = NoTest
    /\ CAIdle /\ PMIdle /\ DQIdle /\ SinkIdle /\ AppInit /\ DagInit
SpecDD == InitDD /\ [][NextDD]_vars

\* The statistical tests called directly, on every pair of samples.
InitTests ==
    /\ detector = NoDetector
    /\ dd_ret = DDRet("init", "ok", <<>>, 0, 0)
    /\ dd_log = <<>>
    /\ test_ret = NoTest
    /\ CAIdle /\ PMIdle /\ DQIdle /\ SinkIdle /\ AppInit /\ DagInit
SpecTests == InitTests /\ [][NextTests]_vars

(***************************************************************************)
(* The three exporting operations against a metrics sink that is either up *)
(* or down: a monitor that has logged one labelled prediction, a validator *)
(* and a constructed one-feature 'psi' detector, nothing exported yet.     *)
(***************************************************************************)
\* Requests whose values all have the declared type.
WellTypedRequests == {data \in Requests : \A f \in DOMAIN data : data[f] = "int"}

SinkValidateRequest ==
    /\ \E data \in WellTypedRequests : ValidateRequest(data)
    /\ UNCHANGED <<ca_vars, pm_vars, dd_vars, sink_vars,
                 app_vars, dag_vars>>

InitSink ==
    /\ sink_ok \in BOOLEAN
    /\ data_drift_score = <<>>
    /\ model_accuracy = <<>>
    /\ min_samples \in 1..MaxMinSamples
    /\ \E k \in 0..1 : Loaded(1, k, 0)
    /\ pm_ret = PMRet("init", "ok", 0, 0, 0, 0, None)
    /\ detector = [state |-> "ok", n_features |-> 1,
                   feature_names |-> <<FName(1)>>,
                   method |-> "psi", threshold |-> 50, ref_rows |-> 2]
    /\ dd_ret = DDRet("init", "ok", <<>>, 0, 0)
    /\ dd_log = <<>>
    /\ test_ret = NoTest
    /\ CAIdle /\ DQIdle /\ AppInit /\ DagInit
NextSink ==
    \/ PMCalculateMetrics \/ SinkValidateRequest
    \/ DDDetectDrift \/ DDExportDriftMetrics
SpecSink == InitSink /\ [][NextSink]_vars

\* The serving application alone.
InitApp ==
    /\ app_state = [is_ready |-> FALSE, is_alive |-> TRUE,
                    model_loaded |-> FALSE, shutdown_event |-> FALSE,
                    model |-> None, gauge |-> 0]
    /\ app_pc = [main |-> "load", handler |-> "idle", signals |-> 0]
    /\ app_probe = [readiness |-> 0, liveness |-> 0]
    /\ CAIdle /\ PMIdle /\ DQIdle /\ DDIdle /\ SinkIdle /\ DagInit
SpecApp == InitApp /\ [][NextApp]_vars

\* The DAG alone.
InitDag ==
    /\ dag_tasks = FreshRun
    /\ dag_run = 1
    /\ CAIdle /\ PMIdle /\ DQIdle /\ DDIdle /\ SinkIdle /\ AppInit
SpecDag == InitDag /\ [][NextDag]_vars


(***************************************************************************)
(*                    Properties: ConfidenceAnalyzer                       *)
(***************************************************************************)

\* The window is exactly the most recent min(n, window_size) of the n
\* logged confidences, in arrival order.
HoldsMostRecent ==
    LET n == Len(ca_log)
        m == Min(n, window_size)
    IN  /\ Len(confidences) = m
        /\ \A i \in 1..m :
              /\ confidences[i].n = ca_log[n - m + i].n
              /\ confidences[i].v = ca_log[n - m + i].confidence

\* C1, as stated: after any n log_confidence calls the window holds exactly
\* the most recent min(n, window_size) confidences in arrival order, so its
\* length never exceeds window_size, whatever window_size is.
C1_WindowAnySize == HoldsMostRecent /\ Len(confidences) <= window_size

\* The same for the analyzers built with a window_size of at least 1, where
\* it holds: the window outgrows its size only when window_size is 0.
WindowPositiveSize ==
    window_size >= 1 => (HoldsMostRecent /\ Len(confidences) <= window_size)

\* window_size + 1 calls were made and the oldest observation is gone.
WindowEvicted ==
    /\ window_size >= 1
    /\ Len(ca_log) = window_size + 1
    /\ Len(confidences) = window_size
    /\ confidences[1].n = 2

\* C2: every retained correctness flag belongs to an observation still in
\* the window, and every retained observation logged with a flag still has
\* that flag.
C2_FlagsPaired ==
    /\ \A i \in 1..Len(correctness) :
          \E j \in 1..Len(confidences) : confidences[j].n = correctness[i].n
    /\ \A j \in 1..Len(confidences) :
          ca_log[confidences[j].n].is_correct # None =>
             \E i \in 1..Len(correctness) :
                /\ correctness[i].n = confidences[j].n
                /\ correctness[i].v = ca_log[confidences[j].n].is_correct

\* C8: a log_confidence call with a confidence outside [0,1] fails with
\* OutOfRangeError and leaves confidences and correctness unchanged.
C8_OutOfRangeRejected ==
    [][(/\ Len(ca_log') = Len(ca_log) + 1
        /\ ~InRange(ca_log'[Len(ca_log')].confidence))
       => (/\ ca_ret' = "OutOfRangeError"
           /\ confidences' = confidences
           /\ correctness' = correctness)]_vars


(***************************************************************************)
(*                  Properties: ModelPerformanceMonitor                    *)
(***************************************************************************)

\* The records logged with a ground truth, and those of them predicted
\* correctly, counted on the history of log_prediction calls.
LabeledRecords ==
    {i \in 1..Len(pm_records) : pm_records[i].ground_truth # NoLabel}
Labeled == Cardinality(LabeledRecords)
LabeledCorrect ==
    Cardinality({i \in LabeledRecords :
                    pm_records[i].ground_truth = pm_records[i].prediction})

\* C3: calculate_metrics returns no snapshot when the labeled count is below
\* min_samples and a snapshot whose sample_count is the labeled count when
\* it is at least min_samples.
C3_SnapshotAtMinSamples ==
    pm_ret.op = "calculate_metrics" =>
       IF Labeled < min_samples
       THEN pm_ret.out = "None"
       ELSE pm_ret.out = "snapshot" /\ pm_ret.sample_count = Labeled

\* C4: check_degradation returns false when the labeled count is below
\* min_samples, and otherwise returns true exactly when baseline_accuracy
\* minus the accuracy over the labeled records is strictly above threshold.
C4_DegradationRule ==
    pm_ret.op = "check_degradation" =>
       IF Labeled < min_samples
       THEN pm_ret.out = "False"
       ELSE /\ pm_ret.out \in {"True", "False"}
            /\ pm_ret.out = "True" <=>
                  (pm_ret.baseline * Labeled - 100 * LabeledCorrect
                      > pm_ret.threshold * Labeled)

\* check_degradation(0.90, 0.10) has returned a verdict on at least
\* min_samples labeled records.
C5Case ==
    /\ pm_ret.op = "check_degradation"
    /\ pm_ret.baseline = 90 /\ pm_ret.threshold = 10
    /\ Labeled >= min_samples
    /\ pm_ret.out \in {"True", "False"}

C6_LabelAttached ==
    [][(/\ pm_ret'.op = "add_ground_truth"
        /\ \E i \in 1..Len(pm_records) :
              /\ pm_records[i].prediction_id = pm_ret'.prediction_id
              /\ pm_records[i].ground_truth = NoLabel)
       => Len(ground_truth') = Len(ground_truth) + 1]_vars

\* C7: add_ground_truth with an id no record was logged with returns
\* normally and leaves every stored prediction, label and timestamp as it
\* was.
C7_UnknownIdIgnored ==
    [][(/\ pm_ret'.op = "add_ground_truth"
        /\ \A i \in 1..Len(pm_records) :
              pm_records[i].prediction_id # pm_ret'.prediction_id)
       => (/\ pm_ret'.out = "ok"
           /\ predictions' = predictions
           /\ ground_truth' = ground_truth
           /\ prediction_timestamps' = prediction_timestamps)]_vars

\* add_ground_truth("b", ...) has returned on a monitor that holds records,
\* one of them logged with another id and none with "b".
C7_Witness ==
    /\ pm_ret.op = "add_ground_truth"
    /\ pm_ret.prediction_id = "b"
    /\ pm_ret.out = "ok"
    /\ \E i \in 1..Len(pm_records) : pm_records[i].prediction_id = "a"
    /\ \A i \in 1..Len(pm_records) : pm_records[i].prediction_id # "b"


(***************************************************************************)
(*                    Properties: DataQualityMonitor                       *)
(***************************************************************************)

Listed(list, f) == \E i \in 1..Len(list) : list[i] = f

\* C9: validate_request on a record that lacks a declared feature f lists f
\* under 'missing' and increases the tally issue_counts['missing'][f] by
\* exactly 1.
C9_MissingTallied ==
    [][dq_calls' = dq_calls + 1 =>
          \A f \in DOMAIN expected_schema :
             f \notin DOMAIN dq_ret'.data =>
                /\ Listed(dq_ret'.issues.missing, f)
                /\ Count(issue_counts'.missing, f)
                      = Count(issue_counts.missing, f) + 1]_vars

\* C10: validate_request never raises, whatever the record and whatever the
\* schema's type tags: every call returns an issue map.
C10_NeverRaises == dq_ret.out \in {"init", "issues"}


\* C11: across validate_request calls no counter decreases: neither a
\* per-feature missing, type_error or out_of_range tally, nor the global
\* schema-mismatch tally, nor the exported missing-feature counter.
C11_CountersMonotone ==
    [][/\ \A f \in Features :
             /\ missing_features_total'[f] >= missing_features_total[f]
             /\ Count(issue_counts'.missing, f)
                   >= Count(issue_counts.missing, f)
             /\ Count(issue_counts'.type_error, f)
                   >= Count(issue_counts.type_error, f)
             /\ Count(issue_counts'.out_of_range, f)
                   >= Count(issue_counts.out_of_range, f)
       /\ issue_counts'.schema_mismatch >= issue_counts.schema_mismatch]_vars

\* Two calls were made and a counter has grown with each of them.
C11_Witness ==
    /\ dq_calls = 2
    /\ \E f \in Features : missing_features_total[f] = 2


(***************************************************************************)
(*                    Properties: DataDriftDetector                        *)
(***************************************************************************)

\* C12: constructing a detector whose feature-name list does not have one
\* name per reference column fails with ValueError, exactly in that case,
\* and no detector exists afterwards that detect_drift could be called on:
\* no detect_drift call has ever answered.
C12_MismatchRejected ==
    /\ detector.state # "none" =>
          (detector.state = "ValueError"
              <=> Len(detector.feature_names) # detector.n_features)
    /\ detector.state = "ValueError" => dd_ret.op = "init"

\* A construction with too few names has been refused.
C12_Witness ==
    /\ detector.state = "ValueError"
    /\ Len(detector.feature_names) < detector.n_features

\* C13: a detect_drift call on a batch whose column count differs from the
\* detector's number of features fails with an error (of whatever class)
\* and hands no results to the caller.
C13_FeatureCountChecked ==
    (/\ dd_ret.op = "detect_drift"
     /\ dd_ret.cols # Len(detector.feature_names))
        => dd_ret.out # "results" /\ dd_ret.results = <<>>

\* C14: a detect_drift call answers with exactly one result per declared
\* feature, in the order of the feature list, each carrying the feature's
\* name and the detector's method.
C14_OneResultPerFeature ==
    dd_ret.op = "detect_drift" =>
        /\ dd_ret.out = "results"
        /\ Len(dd_ret.results) = Len(detector.feature_names)
        /\ \A i \in 1..Len(dd_ret.results) :
              /\ dd_ret.results[i].feature_name = detector.feature_names[i]
              /\ dd_ret.results[i].test_method = detector.method

\* Where detect_drift does return a list, it is one result per feature in
\* feature-list order.
ResultsInFeatureOrder ==
    (dd_ret.op = "detect_drift" /\ dd_ret.out = "results") =>
        /\ Len(dd_ret.results) = Len(detector.feature_names)
        /\ \A i \in 1..Len(dd_ret.results) :
              /\ dd_ret.results[i].feature_name = detector.feature_names[i]
              /\ dd_ret.results[i].test_method = detector.method

\* C15: in every returned result the drift flag follows the method's rule:
\* 'ks' flags drift exactly when p_value < threshold, 'psi' exactly when
\* statistic > 0.25, 'js' exactly when statistic > 0.5 (a nan is neither
\* below nor above anything).
C15_DriftRule ==
    \A i \in 1..Len(dd_ret.results) :
        LET r == dd_ret.results[i]
        IN  /\ r.test_method = "ks" =>
                  (r.is_drift <=>
                      r.p_value # NaN /\ r.p_value < detector.threshold)
            /\ r.test_method = "psi" =>
                  (r.is_drift <=> r.statistic # NaN /\ r.statistic > 250)
            /\ r.test_method = "js" =>
                  (r.is_drift <=> r.statistic # NaN /\ r.statistic > 500)

\* A 'psi' call has returned one feature exactly at 0.25, not flagged, and
\* one just above it, flagged.
C15_Witness ==
    /\ dd_ret.op = "detect_drift" /\ detector.method = "psi"
    /\ \E i, j \in 1..Len(dd_ret.results) :
          /\ dd_ret.results[i].statistic = 250
          /\ ~dd_ret.results[i].is_drift
          /\ dd_ret.results[j].statistic = 251
          /\ dd_ret.results[j].is_drift

\* C16: every result a detect_drift call returns with is_drift true has a
\* warning naming its feature among the log entries of that same call,
\* whatever the method.
C16_DriftLogged ==
    \A i \in 1..Len(dd_ret.results) :
        dd_ret.results[i].is_drift =>
            \E k \in 1..Len(dd_log) :
                dd_log[k] = dd_ret.results[i].feature_name

\* A 'js' call (no p-value) has returned a flagged feature after an
\* unflagged one, and logged one warning.
C16_Witness ==
    /\ dd_ret.op = "detect_drift" /\ detector.method = "js"
    /\ Len(dd_ret.results) = 2
    /\ ~dd_ret.results[1].is_drift /\ dd_ret.results[2].is_drift
    /\ dd_log = <<dd_ret.results[2].feature_name>>

\* A result marked insufficient_data.  DriftDetectionResult has the fields
\* feature_name, statistic, p_value, is_drift, test_method and timestamp.
InsufficientData(r) ==
    "insufficient_data" \in DOMAIN r /\ r.insufficient_data

\* C17: a detect_drift call in which a sample has fewer than two points
\* (on a batch of the right width, with a method that has a branch) does
\* not abort, and the results of the features so sampled are marked
\* insufficient_data.
C17_DegenerateMarked ==
    (/\ dd_ret.op = "detect_drift"
     /\ dd_ret.rows < 2 \/ detector.ref_rows < 2
     /\ dd_ret.cols = Len(detector.feature_names)
     /\ detector.method \in {"ks", "psi", "js"})
        => /\ dd_ret.out = "results"
           /\ \A i \in 1..Len(dd_ret.results) :
                 InsufficientData(dd_ret.results[i])

\* The call on a degenerate sample does not abort (the half of C17 that
\* survives for methods whose test accepts any sample).
DegenerateReturns ==
    (/\ dd_ret.op = "detect_drift"
     /\ dd_ret.rows < 2 \/ detector.ref_rows < 2
     /\ dd_ret.cols = Len(detector.feature_names)
     /\ detector.method \in {"psi", "js"})
        => dd_ret.out = "results"

(***************************************************************************)
(*                      Properties: concurrent calls                       *)
(***************************************************************************)

\* No thread is inside log_confidence.
CAQuiescent == \A t \in Threads : ca_threads[t].pc = "idle"

\* C18: whenever the concurrent log_confidence calls made so far have all
\* returned, the window is what the same appends leave when each append and
\* its eviction are one indivisible step: the most recent
\* min(n, window_size) observations in the order of the appends, nothing
\* else missing, and no longer than window_size.
C18_AtomicEviction ==
    CAQuiescent => (HoldsMostRecent /\ Len(confidences) <= window_size)

\* The window never outgrows window_size once the calls have returned
\* (the half of C18 the interleavings do not break).
QuiescentLengthBounded ==
    CAQuiescent => Len(confidences) <= window_size

\* No thread is inside validate_request.
DQQuiescent == \A t \in Threads : dq_threads[t].pc = "idle"

\* C19: the concurrent validate_request calls here all lack the declared
\* feature "age"; whenever k of them have completed and none is running,
\* the tally missing["age"] has grown (from nothing) by exactly k.
C19_NoLostIncrement ==
    DQQuiescent => Count(issue_counts.missing, "age") = dq_calls

\* The exported counter missing_features_total{"age"} does count every one
\* of those calls, under every interleaving.
ExportedCounterExact ==
    DQQuiescent => missing_features_total["age"] = dq_calls

(***************************************************************************)
(*                      Properties: the metrics sink                       *)
(***************************************************************************)

\* C20: a failure of the metrics sink never reaches the caller of
\* calculate_metrics, validate_request or export_drift_metrics: none of
\* them ends with the sink's exception.
C20_SinkFailureContained ==
    /\ pm_ret.out # "SinkError"
    /\ dq_ret.out # "SinkError"
    /\ dd_ret.out # "SinkError"

\* With the sink up, every one of the three operations ends normally.
SinkUpReturns == sink_ok => C20_SinkFailureContained

(***************************************************************************)
(*              Properties: ConfidenceAnalyzer.get_statistics              *)
(***************************************************************************)

\* C21: get_statistics never raises; on an empty window it returns the
\* empty result, on a non-empty window a result whose count is the current
\* length of the window.
C21_StatisticsCount ==
    ca_ret = "stats" =>
        /\ ca_stats.out \in {"empty", "stats"}
        /\ ca_stats.out = "empty" <=> Len(confidences) = 0
        /\ ca_stats.out = "stats" => ca_stats.count = Len(confidences)

\* Statistics were taken of a full window that has already evicted an
\* observation.
C21_Witness ==
    /\ ca_ret = "stats" /\ ca_stats.out = "stats"
    /\ window_size >= 1
    /\ Len(ca_log) > window_size
    /\ ca_stats.count = window_size

\* Statistics were asked of an empty window.
StatisticsOfEmpty == ca_ret = "stats" /\ ca_stats.out = "empty"

\* The observations in the window that were logged with a correctness
\* flag, as positions of the window.
FlaggedInWindow ==
    {j \in 1..Len(confidences) : ca_log[confidences[j].n].is_correct # None}

\* Confidences are in tenths, so each value is its own decile bucket: the
\* bucket's mean confidence is the value and its accuracy is the share of
\* its flagged observations that were correct.  Equal when
\* value * size = 10 * correct.
BucketCalibrated(v) ==
    LET members == {j \in FlaggedInWindow : confidences[j].v = v}
        correct == {j \in members :
                       ca_log[confidences[j].n].is_correct = "True"}
    IN  v * Cardinality(members) = 10 * Cardinality(correct)

\* C26: when the window holds at least one correctness flag, the
\* calibration score get_statistics reports is 0 exactly when every
\* confidence bucket's mean confidence equals its accuracy, and positive
\* otherwise.
C26_CalibrationScore ==
    (/\ ca_ret = "stats" /\ ca_stats.out = "stats"
     /\ Len(correctness) > 0
     /\ \A j \in 1..Len(confidences) : InRange(confidences[j].v))
        => /\ ca_stats.calibration_score # NoScore
           /\ ca_stats.calibration_score >= 0
           /\ ca_stats.calibration_score = 0
                 <=> \A v \in 0..10 : BucketCalibrated(v)

\* The score is present exactly when a flag is, and is never negative.
ScorePresentWithFlags ==
    (ca_ret = "stats" /\ ca_stats.out = "stats")
        => /\ ca_stats.calibration_score # NoScore <=> Len(correctness) > 0
           /\ ca_stats.calibration_score # NoScore
                 => ca_stats.calibration_score >= 0

(***************************************************************************)
(*                  Properties: the statistical tests                      *)
(***************************************************************************)

\* C22: the Jensen-Shannon statistic of (reference, current) equals the one
\* of (current, reference); in particular one is zero, positive or nan
\* exactly when the other is.
C22_JSSymmetric ==
    test_ret.op = "js" =>
        test_ret.kind = JSKind(test_ret.current, test_ret.reference)

\* It is symmetric for two samples that span the same range, whose bin
\* edges are then the same in both directions.
JSSymmetricOnSharedRange ==
    (/\ test_ret.op = "js"
     /\ Lowest(test_ret.reference) = Lowest(test_ret.current)
     /\ Highest(test_ret.reference) = Highest(test_ret.current))
        => test_ret.kind = JSKind(test_ret.current, test_ret.reference)

\* C27: in the PSI computation every value of the production sample is
\* counted in exactly one bin, so the production bin counts sum to the
\* size of the production sample.
C27_AllValuesBinned ==
    test_ret.op = "psi" =>
        Total(test_ret.cur_hist) = Size(test_ret.current)

\* The values of the reference sample itself are all counted, and so are
\* those of a production sample that stays within the reference range.
BinnedWithinRange ==
    test_ret.op = "psi" =>
        /\ Total(test_ret.ref_hist) = Size(test_ret.reference)
        /\ (/\ Lowest(test_ret.reference) <= Lowest(test_ret.current)
            /\ Highest(test_ret.current) <= Highest(test_ret.reference)
            /\ Lowest(test_ret.reference) < Highest(test_ret.reference))
              => Total(test_ret.cur_hist) = Size(test_ret.current)

(***************************************************************************)
(*          Properties: ModelPerformanceMonitor, retained records          *)
(***************************************************************************)

\* C23: a log_prediction call appends exactly one prediction (with its
\* timestamp, and its label when one is given) and changes nothing else;
\* add_ground_truth, calculate_metrics and check_degradation leave the
\* retained predictions as they are, so their number never decreases.
C23_AppendOnly ==
    [][/\ Len(predictions') >= Len(predictions)
       /\ Len(pm_records') = Len(pm_records) + 1 =>
             LET logged == pm_records'[Len(pm_records')]
             IN  /\ predictions' = Append(predictions, logged.prediction)
                 /\ Len(prediction_timestamps')
                       = Len(prediction_timestamps) + 1
                 /\ ground_truth' =
                       IF logged.ground_truth # NoLabel
                       THEN Append(ground_truth, logged.ground_truth)
                       ELSE ground_truth
                 /\ min_samples' = min_samples
                 /\ UNCHANGED <<ca_vars, dq_vars, dd_vars, sink_vars>>
       /\ Len(pm_records') = Len(pm_records) =>
             /\ predictions' = predictions
             /\ prediction_timestamps' = prediction_timestamps]_vars

\* Three predictions were logged, all are retained, and a
\* check_degradation call has just returned.
C23_Witness ==
    /\ Len(pm_records) = 3 /\ Len(predictions) = 3
    /\ pm_ret.op = "check_degradation"

\* Some logged predictions carry a ground truth and some do not.
Mixed == Labeled > 0 /\ Labeled < Len(pm_records)

\* C24: when some predictions were logged with a ground truth and others
\* without, calculate_metrics and check_degradation (given min_samples
\* labels) compute over the labeled records only, each label against the
\* prediction of its own record: the call does not fail, and the snapshot
\* counts the labeled records and the correct ones among them.
C24_LabelsAligned ==
    (/\ pm_ret.op \in {"calculate_metrics", "check_degradation"}
     /\ Mixed
     /\ Labeled >= min_samples)
        => /\ pm_ret.out # "ValueError"
           /\ pm_ret.op = "calculate_metrics" =>
                 /\ pm_ret.out = "snapshot"
                 /\ pm_ret.sample_count = Labeled
                 /\ pm_ret.correct = LabeledCorrect

\* When every logged prediction carries a ground truth the two lists are
\* aligned and the snapshot is the one over the labeled records.
AlignedWhenAllLabeled ==
    (/\ pm_ret.op = "calculate_metrics"
     /\ Labeled = Len(pm_records)
     /\ Labeled >= min_samples)
        => /\ pm_ret.out = "snapshot"
           /\ pm_ret.sample_count = Labeled
           /\ pm_ret.correct = LabeledCorrect

(***************************************************************************)
(*              Properties: DataQualityMonitor, type errors                *)
(***************************************************************************)

\* The value of a declared feature is present in the record and is no
\* instance of the declared type.
TypeMismatch(f, data) ==
    /\ f \in DOMAIN expected_schema
    /\ f \in DOMAIN data
    /\ ~PyIsInstance(data[f], expected_schema[f])

\* C25: validate_request returns a dict whose 'type_error' list names a
\* field exactly when the field is declared in the schema, present in the
\* record and of a type that does not match the declared tag; absent
\* features and undeclared fields are never in it.
C25_TypeErrorsExact ==
    dq_ret.out # "init" =>
        /\ dq_ret.out = "issues"
        /\ \A f \in Fields :
              Listed(dq_ret.issues.type_error, f)
                 <=> TypeMismatch(f, dq_ret.data)

\* The same for the schemas whose tags all name a Python type.
TypeErrorsExactForTypeNames ==
    (/\ dq_ret.out # "init"
     /\ \A f \in Features : expected_schema[f] \in TypeNames)
        => /\ dq_ret.out = "issues"
           /\ \A f \in Fields :
                 Listed(dq_ret.issues.type_error, f)
                    <=> TypeMismatch(f, dq_ret.data)

(***************************************************************************)
(*               Properties: DataDriftDetector, methods                    *)
(***************************************************************************)

\* C28: for every method the constructor documents ('ks', 'psi', 'js',
\* 'chi2'), a detect_drift call on a batch of the detector's width, with
\* non-empty samples, completes and returns one result per feature.
C28_EveryMethodDetects ==
    (/\ dd_ret.op = "detect_drift"
     /\ dd_ret.cols = Len(detector.feature_names)
     /\ dd_ret.rows > 0 /\ detector.ref_rows > 0)
        => /\ dd_ret.out = "results"
           /\ Len(dd_ret.results) = Len(detector.feature_names)

\* The three methods that have a branch do complete on such a batch.
BranchedMethodsDetect ==
    (/\ dd_ret.op = "detect_drift"
     /\ detector.method \in {"ks", "psi", "js"}
     /\ dd_ret.cols = Len(detector.feature_names)
     /\ dd_ret.rows > 0 /\ detector.ref_rows > 0)
        => /\ dd_ret.out = "results"
           /\ Len(dd_ret.results) = Len(detector.feature_names)

ReadyOnlyWhenLoaded == app_state.is_ready => app_state.model_loaded

\* The order of the tasks as the spec lists them.
Chain ==
    <<"ingest_data", "validate_data", "preprocess_data", "version_data_dvc",
      "train_model", "evaluate_model", "register_model",
      "send_success_email">>

\* C30: the eight tasks form one chain in the listed order, a task starts
\* only when its predecessor in the chain has succeeded, and the success
\* e-mail runs only after all seven earlier tasks succeeded.
C30_SingleChain ==
    /\ Tasks = {Chain[i] : i \in 1..Len(Chain)}
    /\ Edges = ChainEdges(Chain)
    /\ [][\A i \in 2..Len(Chain) :
            (/\ dag_tasks[Chain[i]].state # "running"
             /\ dag_tasks'[Chain[i]].state = "running")
            => /\ dag_tasks[Chain[i - 1]].state = "success"
               /\ (i = Len(Chain)
                     => \A j \in 1..(i - 1) :
                           dag_tasks[Chain[j]].state = "success")]_vars

\* A run in which the e-mail was sent after a task had been retried.
C30_Witness ==
    /\ dag_tasks["send_success_email"].state = "success"
    /\ \E t \in Tasks : dag_tasks[t].try_number > 1

\* In every state, a task that is running or has succeeded has all its
\* chain predecessors succeeded.
StartedOnlyAfterPredecessors ==
    \A i \in 1..Len(Chain) :
        dag_tasks[Chain[i]].state \in {"running", "success", "up_for_retry",
                                       "failed"}
        => \A j \in 1..(i - 1) : dag_tasks[Chain[j]].state = "success"

=============================================================================
